---- MODULE Spec2Model ----
(***************************************************************************)
(* LinkedIn Copilot: the OAuth session of the Streamlit page (src/app.py)  *)
(* and the LinkedInAuth class of the tools module                          *)
(* (src/src/linkedin_copilot/tools/custom_tool.py).                        *)
(*                                                                         *)
(* Conventions.  A Python string is a sequence of character tokens: a run  *)
(* of URL-unreserved characters (letters, digits, "_.-~") is one token,    *)
(* every other character is a token of its own.  A Python value that may   *)
(* be None (or a dict key that may be missing) is None == <<>> or          *)
(* Some(v) == <<v>>.  Time is counted in minutes.                          *)
(***************************************************************************)
EXTENDS Integers, Sequences, FiniteSets, TLC

VARIABLES
    now,            \* datetime.now(), minutes
    environ,        \* os.environ: LINKEDIN_CLIENT_ID / LINKEDIN_CLIENT_SECRET
    linkedin_auth,  \* st.session_state.linkedin_auth (app.py LinkedInAuth)
    token_data,     \* st.session_state.token_data
    user_profile,   \* st.session_state.user_profile
    query_params,   \* st.query_params of the session's URL
    pc,             \* position of the script run of main()
    button,         \* the widget whose click started this script run
    buttons,        \* the widgets the last script run rendered
    shown,          \* the main view this script run rendered
    errors,         \* st.error messages of this script run
    requests,       \* outbound HTTP requests since the last user action
    token_posts,    \* POSTs of the authorization code to the token endpoint
    tool_auth,      \* a LinkedInAuth of the tools module
    call,           \* the last LinkedInAuth operation applied, with its result
    wire            \* per LinkedInAuth object: the last authorization URL
                    \* and the last token request it produced

vars == <<now, environ, linkedin_auth, token_data, user_profile, query_params,
          pc, button, buttons, shown, errors, requests, token_posts,
          tool_auth, call, wire>>

uiVars == <<environ, token_data, user_profile, query_params, pc, button,
            buttons, shown, errors, requests, token_posts>>

---------------------------------------------------------------------------
(* Bounds of the model *)

MaxNow == 4
MaxTokenPosts == 2

(* Program constants, in minutes *)

BufferMinutes == 5
DefaultExpiresIn == 60
ManualTokenLifetime == 60

---------------------------------------------------------------------------
(* Python values *)

None == <<>>
Some(x) == <<x>>
EmptyStr == <<>>

\* truth value of an optional string: None and "" are falsy
Truthy(o) == o # None /\ o[1] # EmptyStr

\* dict.get(key, default) on an optional field
Get(o, default) == IF o = None THEN default ELSE o[1]

\* str(v) as urlencode applies it to a parameter value
PyStr(o) == IF o = None THEN <<"None">> ELSE o[1]

---------------------------------------------------------------------------
(* urllib.parse.urlencode: quote_plus of every key and value, joined with  *)
(* "=" and "&".  Unreserved tokens pass through, a space becomes "+", any  *)
(* other character becomes its percent escape.                             *)

QuoteChar(c) ==
    CASE c = " " -> "+"
      [] c = ":" -> "%3A"
      [] c = "/" -> "%2F"
      [] c = "&" -> "%26"
      [] c = "=" -> "%3D"
      [] c = "+" -> "%2B"
      [] c = "%" -> "%25"
      [] c = "?" -> "%3F"
      [] OTHER -> c

QuotePlus(s) == [i \in 1..Len(s) |-> QuoteChar(s[i])]

RECURSIVE UrlEncode(_)
UrlEncode(params) ==
    IF params = <<>> THEN <<>>
    ELSE LET item == QuotePlus(params[1][1]) \o <<"=">> \o QuotePlus(params[1][2])
         IN  IF Len(params) = 1 THEN item
             ELSE item \o <<"&">> \o UrlEncode(Tail(params))

---------------------------------------------------------------------------
(* Configuration written into the two LinkedInAuth classes *)

AppRedirectUri ==
    <<"https", ":", "/", "/", "linkedin-copilot.streamlit.app", "/",
      "signin-linkedin", "/">>
AppScope ==
    <<"openid", " ", "profile", " ", "email", " ", "w_member_social", " ",
      "r_liteprofile">>

ToolRedirectUri ==
    <<"https", ":", "/", "/", "linkedin-copilot.streamlit.app", "/",
      "signin-linkedin">>
ToolScope ==
    <<"openid", " ", "profile", " ", "email", " ", "w_member_social", " ",
      "r_liteprofile", " ", "w_organization_social">>

AuthorizationUrl ==
    <<"https", ":", "/", "/", "www.linkedin.com", "/", "oauth", "/", "v2", "/",
      "authorization">>

\* LinkedInAuth.__init__ of app.py: credentials from the environment
AppAuthInit(env) ==
    [client_id |-> env.client_id, client_secret |-> env.client_secret,
     redirect_uri |-> AppRedirectUri, scope |-> AppScope]

\* LinkedInAuth.__init__ of the tools module: argument or environment
ToolAuthInit(id, secret, env) ==
    [client_id |-> IF Truthy(id) THEN id ELSE env.client_id,
     client_secret |-> IF Truthy(secret) THEN secret ELSE env.client_secret,
     redirect_uri |-> ToolRedirectUri, scope |-> ToolScope]

---------------------------------------------------------------------------
(* Results of an operation: the exception it raised ("" when none), the    *)
(* value it returned (None for None or for no return) and the messages it  *)
(* put on the page with st.error.                                          *)

Returned(v) == [raised |-> "", value |-> v, errors |-> {}]
Raised(e) == [raised |-> e, value |-> None, errors |-> {}]
\* None after st.error(msg)
Failed(msg) == [raised |-> "", value |-> None, errors |-> {msg}]

(* get_auth_url *)

\* app.py: no check of client_id, no state parameter
App_get_auth_url(auth) ==
    Returned(Some(AuthorizationUrl \o <<"?">> \o UrlEncode(<<
        << <<"response_type">>, <<"code">> >>,
        << <<"client_id">>, PyStr(auth.client_id) >>,
        << <<"redirect_uri">>, auth.redirect_uri >>,
        << <<"scope">>, auth.scope >> >>)))

\* tools module: ValueError without client_id, state "linkedin_auth"
Tool_get_auth_url(auth) ==
    IF ~Truthy(auth.client_id) THEN Raised("ValueError")
    ELSE Returned(Some(AuthorizationUrl \o <<"?">> \o UrlEncode(<<
        << <<"response_type">>, <<"code">> >>,
        << <<"client_id">>, PyStr(auth.client_id) >>,
        << <<"redirect_uri">>, auth.redirect_uri >>,
        << <<"scope">>, auth.scope >>,
        << <<"state">>, <<"linkedin_auth">> >> >>)))

---------------------------------------------------------------------------
(* HTTP responses.  transport_ok = FALSE is a network failure (requests    *)
(* raises a RequestException); json_ok = FALSE is a body that is no JSON.  *)

\* response.raise_for_status(): HTTPError for a 4xx or 5xx status
RaisesForStatus(resp) == resp.status >= 400 /\ resp.status < 600

\* the status a request was answered with, 0 when no answer arrived
StatusOf(resp) == IF resp.transport_ok THEN resp.status ELSE 0

\* a request as sent, logged with the status of its answer
TokenRequest(auth, auth_code, resp) ==
    [kind |-> "token", code |-> Some(auth_code),
     redirect_uri |-> Some(auth.redirect_uri),
     client_id |-> auth.client_id, client_secret |-> auth.client_secret,
     access_token |-> None, status |-> StatusOf(resp)]

\* the form fields of a token request
FormData(request) ==
    [grant_type |-> <<"authorization_code">>, code |-> request.code,
     redirect_uri |-> request.redirect_uri, client_id |-> request.client_id,
     client_secret |-> request.client_secret]

ProfileRequest(access_token, resp) ==
    [kind |-> "profile", code |-> None, redirect_uri |-> None,
     client_id |-> None, client_secret |-> None,
     access_token |-> Some(access_token), status |-> StatusOf(resp)]

(* exchange_code_for_token: the request it sends (None when it sends none) *)
(* and its result.                                                         *)

\* a bug: response.raise_for_status() is left out
App_exchange_unchecked_status(auth, auth_code, resp, t) ==
    [request |-> Some(TokenRequest(auth, auth_code, resp)),
     result |->
        IF ~resp.transport_ok
        THEN Failed("Failed to exchange code for token")
        ELSE IF ~resp.json_ok
        THEN Failed("Invalid response from LinkedIn token endpoint")
        ELSE IF resp.body.access_token = None THEN Raised("KeyError")
        ELSE Returned(Some(
            [access_token |-> resp.body.access_token[1],
             expires_at |-> Some(t + Get(resp.body.expires_in, DefaultExpiresIn)),
             token_type |-> Get(resp.body.token_type, <<"Bearer">>)]))]

\* a bug: the lifetime is stored as the expiry time, without datetime.now()
App_exchange_expires_in_only(auth, auth_code, resp, t) ==
    [request |-> Some(TokenRequest(auth, auth_code, resp)),
     result |->
        IF ~resp.transport_ok \/ RaisesForStatus(resp)
        THEN Failed("Failed to exchange code for token")
        ELSE IF ~resp.json_ok
        THEN Failed("Invalid response from LinkedIn token endpoint")
        ELSE IF resp.body.access_token = None THEN Raised("KeyError")
        ELSE Returned(Some(
            [access_token |-> resp.body.access_token[1],
             expires_at |-> Some(Get(resp.body.expires_in, DefaultExpiresIn)),
             token_type |-> Get(resp.body.token_type, <<"Bearer">>)]))]

\* app.py: no check of the credentials; a KeyError is not caught
App_exchange_code_for_token(auth, auth_code, resp, t) ==
    [request |-> Some(TokenRequest(auth, auth_code, resp)),
     result |->
        IF ~resp.transport_ok \/ RaisesForStatus(resp)
        THEN Failed("Failed to exchange code for token")
        ELSE IF ~resp.json_ok
        THEN Failed("Invalid response from LinkedIn token endpoint")
        ELSE IF resp.body.access_token = None THEN Raised("KeyError")
        ELSE Returned(Some(
            [access_token |-> resp.body.access_token[1],
             expires_at |-> Some(t + Get(resp.body.expires_in, DefaultExpiresIn)),
             token_type |-> Get(resp.body.token_type, <<"Bearer">>)]))]

\* tools module: ValueError before any request when a credential is missing
Tool_exchange_code_for_token(auth, auth_code, resp, t) ==
    IF ~Truthy(auth.client_id) \/ ~Truthy(auth.client_secret)
    THEN [request |-> None, result |-> Raised("ValueError")]
    ELSE
    [request |-> Some(TokenRequest(auth, auth_code, resp)),
     result |->
        IF ~resp.transport_ok \/ RaisesForStatus(resp) \/ ~resp.json_ok
        THEN Returned(None)
        ELSE IF resp.body.access_token = None THEN Returned(None)
        ELSE Returned(Some(
            [access_token |-> resp.body.access_token[1],
             expires_at |-> Some(t + Get(resp.body.expires_in, DefaultExpiresIn)),
             expires_in |-> Get(resp.body.expires_in, DefaultExpiresIn),
             token_type |-> Get(resp.body.token_type, <<"Bearer">>)]))]

(* get_user_profile: the userinfo response in the legacy profile layout.   *)
(* A localized map is the sequence of its (locale, value) entries.         *)

Localized(value) == [localized |-> <<[locale |-> "en_US", value |-> value]>>]

\* a bug: family_name is not copied into lastName
FormatProfileWithoutFamilyName(body) ==
    [profile |->
        [id |-> body.sub,
         firstName |-> Localized(Get(body.given_name, <<"User">>)),
         lastName |-> Localized(EmptyStr),
         headline |-> Localized(Get(body.headline, <<"LinkedIn", " ", "User">>)),
         profilePicture |->
            IF Truthy(body.picture)
            THEN Some([displayImage |-> [elements |->
                    <<[identifiers |-> <<[identifier |-> body.picture[1]]>>]>>]])
            ELSE None],
     email |-> [elements |->
        <<[handle |-> [emailAddress |-> Get(body.email, EmptyStr)]]>>]]

FormatProfile(body) ==
    [profile |->
        [id |-> body.sub,
         firstName |-> Localized(Get(body.given_name, <<"User">>)),
         lastName |-> Localized(Get(body.family_name, EmptyStr)),
         headline |-> Localized(Get(body.headline, <<"LinkedIn", " ", "User">>)),
         profilePicture |->
            IF Truthy(body.picture)
            THEN Some([displayImage |-> [elements |->
                    <<[identifiers |-> <<[identifier |-> body.picture[1]]>>]>>]])
            ELSE None],
     email |-> [elements |->
        <<[handle |-> [emailAddress |-> Get(body.email, EmptyStr)]]>>]]

\* app.py: raise_for_status, so every 2xx answer is formatted
App_get_user_profile(access_token, resp) ==
    IF ~resp.transport_ok \/ RaisesForStatus(resp)
    THEN Failed("Failed to get user profile")
    ELSE Returned(Some(FormatProfile(resp.body)))

\* tools module: only status 200 is formatted
Tool_get_user_profile(access_token, resp) ==
    IF ~resp.transport_ok THEN Returned(None)
    ELSE IF resp.status = 200 THEN Returned(Some(FormatProfile(resp.body)))
    ELSE Returned(None)

(* is_token_valid *)

\* app.py: no buffer
App_is_token_valid(td, t) ==
    IF td = None \/ td[1].expires_at = None THEN FALSE
    ELSE t < td[1].expires_at[1]

\* tools module: a token within BufferMinutes of its expiry is invalid
Tool_is_token_valid(td, t) ==
    IF td = None \/ td[1].expires_at = None THEN FALSE
    ELSE t + BufferMinutes < td[1].expires_at[1]

(* refresh_token_if_needed (tools module only) *)

\* a bug: an expired token is given a new lifetime
Tool_refresh_extends(td, t) ==
    IF ~Tool_is_token_valid(td, t)
    THEN IF td = None THEN None
         ELSE Some([td[1] EXCEPT !.expires_at = Some(t + DefaultExpiresIn)])
    ELSE td

Tool_refresh_token_if_needed(td, t) ==
    IF ~Tool_is_token_valid(td, t) THEN None ELSE td

---------------------------------------------------------------------------
(* The extraction helpers of the tools module read dictionaries of any     *)
(* shape.  A value as json.loads builds it is a record of its kind, its    *)
(* text (a str) and its items (the pairs of a dict, the elements of a      *)
(* list).  A Python operation on such a value returns a value or raises.   *)

J(kind, s, items) == [kind |-> kind, s |-> s, items |-> items]
JNull == J("null", <<>>, <<>>)
JNum == J("num", <<>>, <<>>)
JStr(s) == J("str", s, <<>>)
JMap(items) == J("map", <<>>, items)
JList(items) == J("list", <<>>, items)
Item(k, v) == [key |-> k, val |-> v]

Ok(v) == [exc |-> "", val |-> v]
Exc(e) == [exc |-> e, val |-> JNull]

HasKey(v, k) == v.kind = "map" /\ \E i \in 1..Len(v.items) : v.items[i].key = k
Lookup(v, k) == v.items[CHOOSE i \in 1..Len(v.items) : v.items[i].key = k].val

\* v.get(k, default): only a dict has .get
PyGet(v, k, default) ==
    IF v.kind = "map" THEN Ok(IF HasKey(v, k) THEN Lookup(v, k) ELSE default)
    ELSE Exc("AttributeError")

\* k in v: None and numbers are not iterable
PyInRaises(v) == v.kind \in {"null", "num"}
PyIn(k, v) ==
    CASE v.kind = "map" -> HasKey(v, k)
      [] v.kind = "list" -> \E i \in 1..Len(v.items) : v.items[i].val = JStr(<<k>>)
      [] v.kind = "str" -> \E i \in 1..Len(v.s) : v.s[i] = k
      [] OTHER -> FALSE

\* v[k] with a string key
PyItem(v, k) ==
    IF v.kind = "map" THEN (IF HasKey(v, k) THEN Ok(Lookup(v, k)) ELSE Exc("KeyError"))
    ELSE Exc("TypeError")

\* v[0] (last = FALSE) or v[-1] (last = TRUE)
PyIndex(v, last) ==
    CASE v.kind = "list" ->
            IF v.items = <<>> THEN Exc("IndexError")
            ELSE Ok(v.items[IF last THEN Len(v.items) ELSE 1].val)
      [] v.kind = "str" ->
            IF v.s = <<>> THEN Exc("IndexError")
            ELSE Ok(JStr(<<v.s[IF last THEN Len(v.s) ELSE 1]>>))
      [] v.kind = "map" -> Exc("KeyError")
      [] OTHER -> Exc("TypeError")

\* bool(v)
PyTruthy(v) ==
    CASE v.kind = "null" -> FALSE
      [] v.kind = "str" -> v.s # <<>>
      [] v.kind = "num" -> TRUE
      [] OTHER -> v.items # <<>>

\* next(iter(v.values())) of a non-empty v
PyFirstValue(v) ==
    IF v.kind = "map" THEN Ok(v.items[1].val) ELSE Exc("AttributeError")

\* str(v) inside an f-string
PyFormat(v) ==
    CASE v.kind = "str" -> v.s
      [] v.kind = "null" -> <<"None">>
      [] v.kind = "num" -> <<"1">>
      [] v.kind = "map" -> <<"{...}">>
      [] OTHER -> <<"[...]">>

RECURSIVE LStrip(_)
LStrip(s) == IF s # <<>> /\ s[1] = " " THEN LStrip(Tail(s)) ELSE s
RECURSIVE RStrip(_)
RStrip(s) ==
    IF s # <<>> /\ s[Len(s)] = " " THEN RStrip(SubSeq(s, 1, Len(s) - 1)) ELSE s
\* str.strip()
Strip(s) == RStrip(LStrip(s))

\* the first exception of a sequence of steps, "" when none raised
RECURSIVE FirstExc(_)
FirstExc(steps) ==
    IF steps = <<>> THEN ""
    ELSE IF steps[1].exc # "" THEN steps[1].exc ELSE FirstExc(Tail(steps))

\* try: body / except caught: fallback
Catch(body, caught, fallback) ==
    IF body.exc = "" THEN body
    ELSE IF body.exc \in caught THEN fallback ELSE body

\* then(r.val) unless r raised
Then(r, then(_)) == IF r.exc # "" THEN r ELSE then(r.val)

(* get_user_display_name *)

\* a bug: the joined name is returned without .strip()
Tool_display_name_unstripped(profile_data) ==
    LET first_name == Then(PyGet(profile_data, "firstName", JMap(<<>>)),
                           LAMBDA v : PyGet(v, "localized", JMap(<<>>)))
        last_name == Then(PyGet(profile_data, "lastName", JMap(<<>>)),
                          LAMBDA v : PyGet(v, "localized", JMap(<<>>)))
        first_name_value == Then(first_name, LAMBDA v :
            IF PyTruthy(v) THEN PyFirstValue(v) ELSE Ok(JStr(<<"User">>)))
        last_name_value == Then(last_name, LAMBDA v :
            IF PyTruthy(v) THEN PyFirstValue(v) ELSE Ok(JStr(EmptyStr)))
        exc == FirstExc(<<first_name, last_name, first_name_value, last_name_value>>)
    IN  Catch(IF exc # "" THEN Exc(exc)
              ELSE Ok(JStr(PyFormat(first_name_value.val) \o <<" ">>
                                \o PyFormat(last_name_value.val))),
              {"AttributeError", "KeyError"},
              Ok(JStr(<<"LinkedIn", " ", "User">>)))

Tool_get_user_display_name(profile_data) ==
    LET first_name == Then(PyGet(profile_data, "firstName", JMap(<<>>)),
                           LAMBDA v : PyGet(v, "localized", JMap(<<>>)))
        last_name == Then(PyGet(profile_data, "lastName", JMap(<<>>)),
                          LAMBDA v : PyGet(v, "localized", JMap(<<>>)))
        first_name_value == Then(first_name, LAMBDA v :
            IF PyTruthy(v) THEN PyFirstValue(v) ELSE Ok(JStr(<<"User">>)))
        last_name_value == Then(last_name, LAMBDA v :
            IF PyTruthy(v) THEN PyFirstValue(v) ELSE Ok(JStr(EmptyStr)))
        exc == FirstExc(<<first_name, last_name, first_name_value, last_name_value>>)
    IN  Catch(IF exc # "" THEN Exc(exc)
              ELSE Ok(JStr(Strip(PyFormat(first_name_value.val) \o <<" ">>
                                    \o PyFormat(last_name_value.val)))),
              {"AttributeError", "KeyError"},
              Ok(JStr(<<"LinkedIn", " ", "User">>)))

(* get_user_email *)

Tool_get_user_email(email_data) ==
    Catch(IF PyInRaises(email_data) THEN Exc("TypeError")
          ELSE IF ~PyIn("elements", email_data) THEN Ok(JNull)
          ELSE Then(PyItem(email_data, "elements"), LAMBDA elements :
                IF ~PyTruthy(elements) THEN Ok(JNull)
                ELSE Then(PyIndex(elements, FALSE), LAMBDA element :
                     Then(PyItem(element, "handle~"), LAMBDA handle :
                          PyItem(handle, "emailAddress")))),
          {"KeyError", "IndexError", "TypeError"},
          Ok(JNull))

(* get_profile_picture_url *)

Tool_get_profile_picture_url(profile_data) ==
    Catch(Then(PyGet(profile_data, "profilePicture", JMap(<<>>)), LAMBDA picture_data :
            IF PyInRaises(picture_data) THEN Exc("TypeError")
            ELSE IF ~PyIn("displayImage~", picture_data) THEN Ok(JNull)
            ELSE Then(PyItem(picture_data, "displayImage~"), LAMBDA image :
                 Then(PyGet(image, "elements", JList(<<>>)), LAMBDA elements :
                    IF ~PyTruthy(elements) THEN Ok(JNull)
                    ELSE Then(PyIndex(elements, TRUE), LAMBDA element :
                         Then(PyItem(element, "identifiers"), LAMBDA identifiers :
                         Then(PyIndex(identifiers, FALSE), LAMBDA first :
                              PyItem(first, "identifier"))))))),
          {"KeyError", "IndexError", "TypeError"},
          Ok(JNull))

(* the dictionaries get_user_profile builds, as the helpers read them *)

LocalizedJson(l) ==
    JMap(<<Item("localized",
        JMap([i \in 1..Len(l.localized) |->
                Item(l.localized[i].locale, JStr(l.localized[i].value))]))>>)

ProfileJson(profile) ==
    JMap(<<Item("id", IF profile.id = None THEN JNull ELSE JStr(profile.id[1])),
           Item("firstName", LocalizedJson(profile.firstName)),
           Item("lastName", LocalizedJson(profile.lastName)),
           Item("headline", LocalizedJson(profile.headline))>>
         \o (IF profile.profilePicture = None THEN <<>>
             ELSE <<Item("profilePicture", JMap(<<Item("displayImage~",
                JMap(<<Item("elements",
                    JList([i \in 1..Len(profile.profilePicture[1].displayImage.elements) |->
                        Item("", JMap(<<Item("identifiers",
                            JList([j \in 1..Len(profile.profilePicture[1].displayImage.elements[i].identifiers) |->
                                Item("", JMap(<<Item("identifier",
                                    JStr(profile.profilePicture[1].displayImage.elements[i].identifiers[j].identifier))>>))]))>>))]))>>))>>))>>))

EmailJson(email) ==
    JMap(<<Item("elements",
        JList([i \in 1..Len(email.elements) |->
            Item("", JMap(<<Item("handle~",
                JMap(<<Item("emailAddress", JStr(email.elements[i].handle.emailAddress))>>))>>))]))>>)

\* display_user_info writes the e-mail line when the elements are not empty
EmailLineShown(email) == email.elements # <<>>

---------------------------------------------------------------------------
(* Inputs: the environment, the session's URL, the provider's answers and  *)
(* what the user types.                                                    *)

ClientIds == {None, Some(EmptyStr), Some(<<"cid">>)}
ClientSecrets == {None, Some(<<"sec">>)}
Environs == [client_id : ClientIds, client_secret : ClientSecrets]

ExpectedState == <<"linkedin_auth">>

QueryParams ==
    [code : {None, Some(<<"code1">>)},
     state : {None, Some(ExpectedState), Some(<<"evil">>)},
     error : {None, Some(<<"access_denied">>)}]
NoQueryParams == [code |-> None, state |-> None, error |-> None]

TokenBodies ==
    [access_token : {None, Some(<<"tokA">>)},
     expires_in : {None, Some(3)},
     token_type : {None}]
NoTokenBody == [access_token |-> None, expires_in |-> None, token_type |-> None]
TokenResponses ==
    {[transport_ok |-> FALSE, status |-> 0, json_ok |-> FALSE, body |-> NoTokenBody],
     [transport_ok |-> TRUE, status |-> 400, json_ok |-> TRUE, body |-> NoTokenBody],
     [transport_ok |-> TRUE, status |-> 400, json_ok |-> TRUE,
      body |-> [NoTokenBody EXCEPT !.access_token = Some(<<"tokA">>)]],
     [transport_ok |-> TRUE, status |-> 200, json_ok |-> FALSE, body |-> NoTokenBody]}
    \cup {[transport_ok |-> TRUE, status |-> 200, json_ok |-> TRUE, body |-> b] :
            b \in TokenBodies}

\* the userinfo claims the provider holds for the owner of an access token
NoProfileBody ==
    [sub |-> None, given_name |-> None, family_name |-> None,
     headline |-> None, picture |-> None, email |-> None]
UserInfo(access_token, optional) ==
    [sub |-> Some(<<"id-">> \o access_token), given_name |-> Some(<<"Ada">>),
     family_name |-> Some(<<"Lovelace">>), headline |-> None,
     picture |-> IF optional THEN Some(<<"pic">>) ELSE None,
     email |-> IF optional THEN Some(<<"a", "@", "x.com">>) ELSE None]
\* how the userinfo endpoint answers, whatever the token is
ProfileAnswers ==
    {[transport_ok |-> FALSE, status |-> 0, optional |-> FALSE],
     [transport_ok |-> TRUE, status |-> 401, optional |-> FALSE],
     [transport_ok |-> TRUE, status |-> 200, optional |-> TRUE],
     [transport_ok |-> TRUE, status |-> 200, optional |-> FALSE]}
\* the response to a profile request made with access_token
ProfileResponse(pa, access_token) ==
    [transport_ok |-> pa.transport_ok, status |-> pa.status,
     body |-> IF pa.transport_ok /\ pa.status = 200
              THEN UserInfo(access_token, pa.optional) ELSE NoProfileBody]

TextInputs == {EmptyStr, <<"cid2">>}
ManualTokens == {EmptyStr, <<"tokM">>}

---------------------------------------------------------------------------
(* The script run of main(): handle_oauth_callback, the sidebar, the main  *)
(* content.  st.rerun() stops the run and starts the script again with no  *)
(* widget clicked; an uncaught exception stops the run.                    *)

\* a bug: the state parameter is not looked at
StateValidAny(qp) == TRUE

\* the CSRF check of handle_oauth_callback
StateValid(qp) == qp.state = Some(ExpectedState)

\* handle_oauth_callback with the answers tr (token endpoint) and pa
\* (userinfo endpoint): the session fields it leaves, the requests it sent,
\* and how the run goes on
handle_oauth_callback(auth, td, up, qp, tr, pa, t) ==
    LET same(errs, go) ==
            [token_data |-> td, user_profile |-> up, query_params |-> qp,
             sent |-> <<>>, errors |-> errs, go |-> go]
    IN
    IF qp.code # None THEN
        IF ~StateValid(qp) THEN same({"Invalid state parameter. Possible CSRF attack."}, "on")
        ELSE
        LET ex == App_exchange_code_for_token(auth, qp.code[1], tr, t) IN
        IF ex.result.raised # "" THEN
            [same({}, "exception") EXCEPT !.sent = ex.request]
        ELSE IF ex.result.value # None THEN
            LET tok == ex.result.value[1]
                presp == ProfileResponse(pa, tok.access_token)
                prof == App_get_user_profile(tok.access_token, presp)
                sent == ex.request \o <<ProfileRequest(tok.access_token, presp)>>
            IN  IF prof.value # None
                THEN [token_data |-> ex.result.value, user_profile |-> prof.value,
                      query_params |-> NoQueryParams, sent |-> sent,
                      errors |-> {}, go |-> "rerun"]
                ELSE [token_data |-> ex.result.value, user_profile |-> up,
                      query_params |-> qp, sent |-> sent,
                      errors |-> prof.errors \cup
                                  {"Failed to retrieve user profile"},
                      go |-> "on"]
        ELSE [same(ex.result.errors \cup
                   {"Failed to authenticate with LinkedIn"}, "on")
                EXCEPT !.sent = ex.request]
    ELSE IF qp.error # None THEN same({"LinkedIn authentication error"}, "on")
    ELSE same({}, "on")

\* a bug: saving the keys also rewrites the redirect URI
SaveApiKeysAndRedirect(auth, id, secret) ==
    [auth EXCEPT !.client_id = Some(id), !.client_secret = Some(secret),
                 !.redirect_uri = ToolRedirectUri]

\* "Save API Keys": the credentials typed into the sidebar replace those of
\* the session's LinkedInAuth
SaveApiKeys(auth, id, secret) ==
    [auth EXCEPT !.client_id = Some(id), !.client_secret = Some(secret)]

\* the test both the sidebar and the main content make of the session
Authenticated(auth, td, t) == td # None /\ App_is_token_valid(td, t)

\* a bug: the token record is stored before the profile is looked at
ManualAuthenticateTokenFirst(td, up, manual_token, pa, t) ==
    IF manual_token = EmptyStr
    THEN [token_data |-> td, user_profile |-> up, sent |-> <<>>,
          errors |-> {"Please paste a valid access token."}, go |-> "on"]
    ELSE
    LET presp == ProfileResponse(pa, manual_token)
        prof == App_get_user_profile(manual_token, presp)
        stored == Some([access_token |-> manual_token,
                        expires_at |-> Some(t + ManualTokenLifetime),
                        token_type |-> <<"Bearer">>])
    IN  [token_data |-> stored,
         user_profile |-> IF prof.value # None THEN prof.value ELSE up,
         sent |-> <<ProfileRequest(manual_token, presp)>>,
         errors |-> IF prof.value # None THEN {}
                    ELSE prof.errors \cup
                        {"Failed to fetch profile with provided access token."},
         go |-> IF prof.value # None THEN "rerun" ELSE "on"]

\* "Authenticate with Access Token"
ManualAuthenticate(td, up, manual_token, pa, t) ==
    IF manual_token = EmptyStr
    THEN [token_data |-> td, user_profile |-> up, sent |-> <<>>,
          errors |-> {"Please paste a valid access token."}, go |-> "on"]
    ELSE
    LET presp == ProfileResponse(pa, manual_token)
        prof == App_get_user_profile(manual_token, presp)
        sent == <<ProfileRequest(manual_token, presp)>>
    IN  IF prof.value # None
        THEN [token_data |-> Some([access_token |-> manual_token,
                                   expires_at |-> Some(t + ManualTokenLifetime),
                                   token_type |-> <<"Bearer">>]),
              user_profile |-> prof.value, sent |-> sent,
              errors |-> {}, go |-> "rerun"]
        ELSE [token_data |-> td, user_profile |-> up, sent |-> sent,
              errors |-> prof.errors \cup
                  {"Failed to fetch profile with provided access token."},
              go |-> "on"]

\* display_user_info at time t: is the Re-authenticate button on the page
ShowsReauthenticate(td, up, t) ==
    /\ up # None
    /\ td # None /\ td[1].expires_at # None
    /\ ~(td[1].expires_at[1] - t > 0)

---------------------------------------------------------------------------
(* Actions of the page *)

NoWire == [app |-> [authorization |-> None, token |-> None],
           tool |-> [authorization |-> None, token |-> None]]

Init ==
    /\ now = 0
    /\ environ \in Environs
    /\ linkedin_auth = AppAuthInit(environ)
    /\ token_data = None
    /\ user_profile = None
    /\ query_params \in QueryParams
    /\ pc = "callback"
    /\ button = "none"
    /\ buttons = {}
    /\ shown = "none"
    /\ errors = {}
    /\ requests = <<>>
    /\ token_posts = 0
    /\ tool_auth = ToolAuthInit(None, None, environ)
    /\ call = [op |-> "none"]
    /\ wire = NoWire

TokenPosts(sent) == Cardinality({i \in 1..Len(sent) : sent[i].kind = "token"})

\* what st.rerun() and an uncaught exception leave of the script run
Continue(go, next) ==
    /\ pc' = CASE go = "on" -> next
               [] go = "rerun" -> "callback"
               [] go = "exception" -> "idle"
    /\ button' = IF go = "rerun" THEN "none" ELSE button
    /\ shown' = IF go = "exception" THEN "exception"
                ELSE IF go = "rerun" THEN "none" ELSE shown

HandleOAuthCallback ==
    /\ pc = "callback"
    /\ \E tr \in TokenResponses, pa \in ProfileAnswers :
        LET r == handle_oauth_callback(linkedin_auth, token_data, user_profile,
                                       query_params, tr, pa, now)
        IN  /\ token_data' = r.token_data
            /\ user_profile' = r.user_profile
            /\ query_params' = r.query_params
            /\ requests' = requests \o r.sent
            /\ token_posts' = token_posts + TokenPosts(r.sent)
            /\ errors' = IF r.go = "rerun" THEN {} ELSE errors \cup r.errors
            /\ Continue(r.go, "sidebar")
    /\ UNCHANGED <<now, environ, linkedin_auth, buttons, tool_auth, call, wire>>

Sidebar ==
    /\ pc = "sidebar"
    /\ \E id \in TextInputs, secret \in TextInputs :
        LET save == button = "save_keys"
            saved == save /\ id # EmptyStr /\ secret # EmptyStr
            authed == Authenticated(linkedin_auth, token_data, now)
            logout == authed /\ button = "logout"
        IN  /\ environ' = IF saved
                          THEN [client_id |-> Some(id), client_secret |-> Some(secret)]
                          ELSE environ
            /\ linkedin_auth' = IF saved THEN SaveApiKeys(linkedin_auth, id, secret)
                                ELSE linkedin_auth
            /\ token_data' = IF logout THEN None ELSE token_data
            /\ user_profile' = IF logout THEN None ELSE user_profile
            /\ errors' = IF logout THEN {}
                         ELSE errors
                              \cup (IF save /\ ~saved
                                    THEN {"Please provide at least LinkedIn Client ID and Secret"}
                                    ELSE {})
                              \cup (IF authed THEN {} ELSE {"Not authenticated"})
            /\ buttons' = IF logout THEN {}
                          ELSE {"edit_input", "save_keys"}
                               \cup (IF authed THEN {"logout"} ELSE {})
            /\ Continue(IF logout THEN "rerun" ELSE "on", "main")
    /\ UNCHANGED <<now, query_params, requests, token_posts, tool_auth, call, wire>>

MainContent ==
    /\ pc = "main"
    /\ IF ~Authenticated(linkedin_auth, token_data, now)
       THEN \E manual_token \in ManualTokens, pa \in ProfileAnswers :
            LET r == IF button = "manual_auth"
                     THEN ManualAuthenticate(token_data, user_profile,
                                             manual_token, pa, now)
                     ELSE [token_data |-> token_data, user_profile |-> user_profile,
                           sent |-> <<>>, errors |-> {}, go |-> "on"]
            IN  /\ token_data' = r.token_data
                /\ user_profile' = r.user_profile
                /\ requests' = requests \o r.sent
                /\ errors' = IF r.go = "rerun" THEN {} ELSE errors \cup r.errors
                /\ buttons' = IF r.go = "rerun" THEN {}
                              ELSE buttons \cup {"manual_auth"}
                /\ pc' = IF r.go = "rerun" THEN "callback" ELSE "idle"
                /\ button' = IF r.go = "rerun" THEN "none" ELSE button
                /\ shown' = IF r.go = "rerun" THEN "none" ELSE "login"
                /\ now' = now
       ELSE \E d \in 0..1 :
            \* d: the time between the page's validity test and the
            \* datetime.now() of display_user_info
            LET reauth == ShowsReauthenticate(token_data, user_profile, now + d)
                clicked == reauth /\ button = "reauth"
            IN  /\ now + d <= MaxNow
                /\ now' = now + d
                /\ token_data' = IF clicked THEN None ELSE token_data
                /\ user_profile' = IF clicked THEN None ELSE user_profile
                /\ errors' = IF clicked THEN {} ELSE errors
                /\ buttons' = IF clicked THEN {}
                              ELSE buttons \cup (IF reauth THEN {"reauth"} ELSE {})
                /\ pc' = IF clicked THEN "callback" ELSE "idle"
                /\ button' = IF clicked THEN "none" ELSE button
                /\ shown' = IF clicked THEN "none" ELSE "app"
                /\ requests' = requests
    /\ UNCHANGED <<environ, linkedin_auth, query_params, token_posts,
                   tool_auth, call, wire>>

\* the user clicks a widget of the page (or edits a text input): the script
\* runs again from the top
UserAction ==
    /\ pc = "idle"
    /\ token_posts < MaxTokenPosts
    /\ \E b \in buttons :
        button' = IF b = "edit_input" THEN "none" ELSE b
    /\ pc' = "callback"
    /\ buttons' = {}
    /\ shown' = "none"
    /\ errors' = {}
    /\ requests' = <<>>
    /\ UNCHANGED <<now, environ, linkedin_auth, token_data, user_profile,
                   query_params, token_posts, tool_auth, call, wire>>

Tick ==
    /\ pc = "idle"
    /\ now < MaxNow
    /\ now' = now + 1
    /\ UNCHANGED <<environ, linkedin_auth, token_data, user_profile,
                   query_params, pc, button, buttons, shown, errors, requests,
                   token_posts, tool_auth, call, wire>>

Next ==
    \/ HandleOAuthCallback
    \/ Sidebar
    \/ MainContent
    \/ UserAction
    \/ Tick

Spec == Init /\ [][Next]_vars

---------------------------------------------------------------------------
(* The operations of the two LinkedInAuth classes, applied to inputs drawn *)
(* from bounded sets.  cls is "app" (src/app.py) or "tool" (tools module). *)

Classes == {"app", "tool"}

TokenDatas ==
    {None} \cup
    {Some([access_token |-> <<"tokA">>, expires_at |-> e, token_type |-> <<"Bearer">>]) :
        e \in {None} \cup {Some(k) : k \in 0..(MaxNow + BufferMinutes + 1)}}

AuthOf(cls) == IF cls = "app" THEN linkedin_auth ELSE tool_auth

get_auth_url(cls, auth) ==
    IF cls = "app" THEN App_get_auth_url(auth) ELSE Tool_get_auth_url(auth)

exchange_code_for_token(cls, auth, auth_code, resp, t) ==
    IF cls = "app" THEN App_exchange_code_for_token(auth, auth_code, resp, t)
    ELSE Tool_exchange_code_for_token(auth, auth_code, resp, t)

is_token_valid(cls, td, t) ==
    IF cls = "app" THEN App_is_token_valid(td, t) ELSE Tool_is_token_valid(td, t)

AuthInit ==
    /\ now = 0
    /\ environ \in Environs
    /\ linkedin_auth = AppAuthInit(environ)
    /\ tool_auth \in {ToolAuthInit(id, secret, environ) :
                        id \in ClientIds, secret \in ClientSecrets}
    /\ token_data = None
    /\ user_profile = None
    /\ query_params = NoQueryParams
    /\ pc = "idle"
    /\ button = "none"
    /\ buttons = {}
    /\ shown = "none"
    /\ errors = {}
    /\ requests = <<>>
    /\ token_posts = 0
    /\ call = [op |-> "none"]
    /\ wire = NoWire

GetAuthUrl ==
    /\ \E cls \in Classes :
        LET r == get_auth_url(cls, AuthOf(cls))
        IN  /\ call' = [op |-> "get_auth_url", cls |-> cls, result |-> r]
            /\ wire' = IF r.value # None
                       THEN [wire EXCEPT ![cls].authorization = r.value]
                       ELSE wire
    /\ UNCHANGED <<now, linkedin_auth, tool_auth, uiVars>>

ExchangeCodeForToken ==
    /\ \E cls \in Classes, tr \in TokenResponses :
        LET r == exchange_code_for_token(cls, AuthOf(cls), <<"code1">>, tr, now)
        IN  /\ call' = [op |-> "exchange_code_for_token", cls |-> cls,
                        response |-> tr, at |-> now,
                        request |-> r.request, result |-> r.result]
            /\ wire' = IF r.request # None
                       THEN [wire EXCEPT ![cls].token = Some(FormData(r.request[1]))]
                       ELSE wire
    /\ UNCHANGED <<now, linkedin_auth, tool_auth, uiVars>>

\* "Save API Keys" on the session's LinkedInAuth
SaveKeys ==
    /\ \E id \in TextInputs \ {EmptyStr}, secret \in TextInputs \ {EmptyStr} :
        linkedin_auth' = SaveApiKeys(linkedin_auth, id, secret)
    /\ call' = [op |-> "save_api_keys"]
    /\ UNCHANGED <<now, tool_auth, wire, uiVars>>

AuthNext ==
    \/ GetAuthUrl
    \/ ExchangeCodeForToken
    \/ SaveKeys

AuthSpec == AuthInit /\ [][AuthNext]_vars

---------------------------------------------------------------------------
(* is_token_valid of both classes on every token record and time *)

IsTokenValid ==
    /\ \E cls \in Classes, td \in TokenDatas :
        call' = [op |-> "is_token_valid", cls |-> cls, token_data |-> td,
                 at |-> now, result |-> is_token_valid(cls, td, now)]
    /\ UNCHANGED <<now, linkedin_auth, tool_auth, wire, uiVars>>

RefreshTokenIfNeeded ==
    /\ \E td \in TokenDatas :
        call' = [op |-> "refresh_token_if_needed", cls |-> "tool",
                 token_data |-> td, at |-> now,
                 result |-> Tool_refresh_token_if_needed(td, now)]
    /\ UNCHANGED <<now, linkedin_auth, tool_auth, wire, uiVars>>

TokenNext ==
    \/ IsTokenValid
    \/ RefreshTokenIfNeeded
    \/ ExchangeCodeForToken
    \/ Tick

TokenSpec == AuthInit /\ [][TokenNext]_vars

---------------------------------------------------------------------------
(* get_user_profile of both classes on every userinfo answer, and the      *)
(* extraction helpers on what it returns and on dictionaries of any shape. *)

ProfileBodies ==
    [sub : {None, Some(<<"id1">>)},
     given_name : {None, Some(EmptyStr), Some(<<"Ada">>), Some(<<" ", "Ada">>)},
     family_name : {None, Some(EmptyStr), Some(<<"Lovelace">>)},
     headline : {None},
     picture : {None, Some(<<"pic">>)},
     email : {None, Some(<<"a", "@", "x.com">>)}]
ProfileResponses ==
    {[transport_ok |-> FALSE, status |-> 0, body |-> NoProfileBody],
     [transport_ok |-> TRUE, status |-> 401, body |-> NoProfileBody]}
    \cup {[transport_ok |-> TRUE, status |-> 200, body |-> b] : b \in ProfileBodies}

get_user_profile(cls, access_token, resp) ==
    IF cls = "app" THEN App_get_user_profile(access_token, resp)
    ELSE Tool_get_user_profile(access_token, resp)

\* the three helpers applied to what get_user_profile returned
Extracted(r) ==
    [display_name |-> IF r.value = None THEN Ok(JNull)
        ELSE Tool_get_user_display_name(ProfileJson(r.value[1].profile)),
     email |-> IF r.value = None THEN Ok(JNull)
        ELSE Tool_get_user_email(EmailJson(r.value[1].email)),
     picture |-> IF r.value = None THEN Ok(JNull)
        ELSE Tool_get_profile_picture_url(ProfileJson(r.value[1].profile)),
     email_shown |-> r.value # None /\ EmailLineShown(r.value[1].email)]

GetUserProfile ==
    /\ \E cls \in Classes, resp \in ProfileResponses :
        LET r == get_user_profile(cls, <<"tokA">>, resp)
        IN  call' = [op |-> "get_user_profile", cls |-> cls, response |-> resp,
                     result |-> r, extracted |-> Extracted(r)]
    /\ UNCHANGED <<now, linkedin_auth, tool_auth, wire, uiVars>>

\* the keys from a dictionary down to the value a helper reads; "[]" is a
\* list element
HelperChain(helper) ==
    CASE helper = "get_user_display_name" -> <<"firstName", "localized", "en_US">>
      [] helper = "get_user_email" -> <<"elements", "[]", "handle~", "emailAddress">>
      [] helper = "get_profile_picture_url" ->
            <<"profilePicture", "displayImage~", "elements", "[]",
              "identifiers", "[]", "identifier">>
Helpers == {"get_user_display_name", "get_user_email", "get_profile_picture_url"}
MaxDepth == Len(HelperChain("get_profile_picture_url"))

\* what stands where the chain breaks: null, a number, a string, an empty
\* dict (the next key is missing), an empty list
Faults == {JNull, JNum, JStr(<<"x">>), JMap(<<>>), JList(<<>>)}

RECURSIVE Nest(_, _)
Nest(keys, leaf) ==
    IF keys = <<>> THEN leaf
    ELSE IF keys[1] = "[]" THEN JList(<<Item("", Nest(Tail(keys), leaf))>>)
    ELSE JMap(<<Item(keys[1], Nest(Tail(keys), leaf))>>)

\* the dictionary that follows the helper's chain for depth keys and then
\* holds fault
Shaped(helper, depth, fault) == Nest(SubSeq(HelperChain(helper), 1, depth), fault)

Extract(helper, v) ==
    CASE helper = "get_user_display_name" -> Tool_get_user_display_name(v)
      [] helper = "get_user_email" -> Tool_get_user_email(v)
      [] helper = "get_profile_picture_url" -> Tool_get_profile_picture_url(v)

ExtractFromShape ==
    /\ \E helper \in Helpers, depth \in 0..MaxDepth, fault \in Faults :
        /\ depth <= Len(HelperChain(helper))
        /\ call' = [op |-> "extract", helper |-> helper, depth |-> depth,
                    fault |-> fault,
                    result |-> Extract(helper, Shaped(helper, depth, fault))]
    /\ UNCHANGED <<now, linkedin_auth, tool_auth, wire, uiVars>>

\* a profile and an e-mail blob in the shape of the /v2/me and
\* /v2/emailAddress answers, with the name under one or two locales
LocaleNames == <<"en_US", "fr_FR">>
MaxLocales == Len(LocaleNames)
LegacyLocalized(value, n) ==
    JMap(<<Item("localized", JMap([i \in 1..n |-> Item(LocaleNames[i], JStr(value))]))>>)
LegacyProfile(first, last, n) ==
    JMap(<<Item("firstName", LegacyLocalized(first, n)),
           Item("lastName", LegacyLocalized(last, n))>>)
LegacyEmail(email) ==
    JMap(<<Item("elements", JList(<<Item("", JMap(<<Item("handle~",
        JMap(<<Item("emailAddress", JStr(email))>>))>>))>>))>>)

FirstNames == {EmptyStr, <<"Ada">>, <<" ", "Ada">>}
LastNames == {EmptyStr, <<"Lovelace">>}
Emails == {EmptyStr, <<"a", "@", "x.com">>}

\* the helpers on a legacy-shaped profile and on what get_user_profile
\* makes of a userinfo answer with the same names and e-mail
CompareShapes ==
    /\ \E cls \in Classes, first \in FirstNames, last \in LastNames,
          email \in Emails, n \in 1..MaxLocales :
        LET body == [sub |-> Some(<<"id1">>), given_name |-> Some(first),
                     family_name |-> Some(last), headline |-> None,
                     picture |-> None, email |-> Some(email)]
            r == get_user_profile(cls, <<"tokA">>,
                    [transport_ok |-> TRUE, status |-> 200, body |-> body])
        IN  call' = [op |-> "shapes", cls |-> cls, first |-> first, last |-> last,
                     email |-> email, locales |-> n,
                     result |-> r,
                     modern |-> Extracted(r),
                     legacy_display_name |->
                        Tool_get_user_display_name(LegacyProfile(first, last, n)),
                     legacy_email |-> Tool_get_user_email(LegacyEmail(email))]
    /\ UNCHANGED <<now, linkedin_auth, tool_auth, wire, uiVars>>

ProfileNext ==
    \/ GetUserProfile
    \/ ExtractFromShape
    \/ CompareShapes
    \/ ExchangeCodeForToken

\* both objects were built with the credentials in the environment
ProfileInit ==
    /\ AuthInit
    /\ environ = [client_id |-> Some(<<"cid">>), client_secret |-> Some(<<"sec">>)]
    /\ tool_auth = ToolAuthInit(None, None, environ)

ProfileSpec == ProfileInit /\ [][ProfileNext]_vars

---------------------------------------------------------------------------
(* post_to_linkedin of main.py and the "Post to LinkedIn" button of the    *)
(* page: a userinfo lookup, a people lookup when the first is not answered *)
(* with 200, then the create-post request.  It returns True or an error    *)
(* string; every exception is caught and turned into a string.             *)

Posted == [raised |-> "", ok |-> TRUE, error |-> ""]
PostError(msg) == [raised |-> "", ok |-> FALSE, error |-> msg]

\* f"urn:li:person:{person_urn}"
PersonUrn(person_urn) == <<"urn", ":", "li", ":", "person", ":">> \o person_urn

LookupRequest(kind, access_token, resp) ==
    [kind |-> kind, access_token |-> access_token, author |-> None,
     text |-> None, status |-> StatusOf(resp)]

CreatePostRequest(content, access_token, person_urn, resp) ==
    [kind |-> "ugcPosts", access_token |-> access_token,
     author |-> Some(PersonUrn(person_urn)), text |-> Some(content),
     status |-> StatusOf(resp)]

\* main.py:53-86: the create-post request and the reading of its status
CreatePost(content, access_token, person_urn, post, sent) ==
    [sent |-> sent \o <<CreatePostRequest(content, access_token, person_urn, post)>>,
     result |-> IF ~post.transport_ok THEN PostError("Exception")
                ELSE IF post.status = 201 THEN Posted
                ELSE PostError("LinkedIn API error")]

\* a bug: the identifier of the people lookup is not tested before posting
post_to_linkedin_unchecked_id(content, access_token, userinfo, people, post) ==
    LET get1 == <<LookupRequest("userinfo", access_token, userinfo)>>
        get2 == get1 \o <<LookupRequest("people", access_token, people)>>
    IN  IF ~userinfo.transport_ok
        THEN [sent |-> get1, result |-> PostError("Exception")]
        ELSE IF userinfo.status = 200
        THEN IF ~userinfo.json_ok
             THEN [sent |-> get1, result |-> PostError("Exception")]
             ELSE IF ~Truthy(userinfo.id)
             THEN [sent |-> get1,
                   result |-> PostError("Failed to get user ID from profile")]
             ELSE CreatePost(content, access_token, userinfo.id[1], post, get1)
        ELSE IF ~people.transport_ok
        THEN [sent |-> get2, result |-> PostError("Exception")]
        ELSE IF people.status # 200
        THEN [sent |-> get2, result |-> PostError("Failed to fetch profile")]
        ELSE IF ~people.json_ok
        THEN [sent |-> get2, result |-> PostError("Exception")]
        ELSE CreatePost(content, access_token, PyStr(people.id), post, get2)

post_to_linkedin(content, access_token, userinfo, people, post) ==
    LET get1 == <<LookupRequest("userinfo", access_token, userinfo)>>
        get2 == get1 \o <<LookupRequest("people", access_token, people)>>
    IN  IF ~userinfo.transport_ok
        THEN [sent |-> get1, result |-> PostError("Exception")]
        ELSE IF userinfo.status = 200
        THEN IF ~userinfo.json_ok
             THEN [sent |-> get1, result |-> PostError("Exception")]
             ELSE IF ~Truthy(userinfo.id)
             THEN [sent |-> get1,
                   result |-> PostError("Failed to get user ID from profile")]
             ELSE CreatePost(content, access_token, userinfo.id[1], post, get1)
        ELSE IF ~people.transport_ok
        THEN [sent |-> get2, result |-> PostError("Exception")]
        ELSE IF people.status # 200
        THEN [sent |-> get2, result |-> PostError("Failed to fetch profile")]
        ELSE IF ~people.json_ok
        THEN [sent |-> get2, result |-> PostError("Exception")]
        ELSE IF ~Truthy(people.id)
        THEN [sent |-> get2,
              result |-> PostError("Could not extract person URN from profile")]
        ELSE CreatePost(content, access_token, people.id[1], post, get2)

\* how a lookup is answered; id is the "sub" of userinfo, the "id" of people
LookupAnswers(id) ==
    {[transport_ok |-> FALSE, status |-> 0, json_ok |-> FALSE, id |-> None],
     [transport_ok |-> TRUE, status |-> 401, json_ok |-> TRUE, id |-> None],
     [transport_ok |-> TRUE, status |-> 200, json_ok |-> FALSE, id |-> None],
     [transport_ok |-> TRUE, status |-> 200, json_ok |-> TRUE, id |-> None],
     [transport_ok |-> TRUE, status |-> 200, json_ok |-> TRUE, id |-> Some(EmptyStr)],
     [transport_ok |-> TRUE, status |-> 200, json_ok |-> TRUE, id |-> Some(id)]}
PostAnswers ==
    {[transport_ok |-> FALSE, status |-> 0],
     [transport_ok |-> TRUE, status |-> 201],
     [transport_ok |-> TRUE, status |-> 200],
     [transport_ok |-> TRUE, status |-> 400]}
Contents == {<<"hello">>, EmptyStr}
AccessTokens == {<<"tokA">>, <<"tokM">>}

\* the button's handler: the stored token's access_token goes to
\* post_to_linkedin, st.success is written when the result is True
PostToLinkedIn ==
    /\ \E content \in Contents, access_token \in AccessTokens,
          userinfo \in LookupAnswers(<<"id1">>),
          people \in LookupAnswers(<<"id2">>), post \in PostAnswers :
        LET r == post_to_linkedin(content, access_token, userinfo, people, post)
        IN  call' = [op |-> "post_to_linkedin", content |-> content,
                     access_token |-> access_token, userinfo |-> userinfo,
                     people |-> people, post |-> post,
                     sent |-> r.sent, result |-> r.result,
                     shown |-> IF r.result.raised # "" THEN "Error posting"
                               ELSE IF r.result.ok THEN "Posted successfully to LinkedIn!"
                               ELSE "Failed to post to LinkedIn"]
    /\ UNCHANGED <<now, linkedin_auth, tool_auth, wire, uiVars>>

PostNext == PostToLinkedIn

PostSpec == ProfileInit /\ [][PostNext]_vars

---------------------------------------------------------------------------
(* The provider's reading of a URL: the query string after "?", split at   *)
(* "&" and "=", every part unquoted ("+" is a space, a percent escape its  *)
(* character); a parameter with a blank value counts as absent.            *)

UnquoteChar(c) ==
    CASE c = "+" -> " "
      [] c = "%3A" -> ":"
      [] c = "%2F" -> "/"
      [] c = "%26" -> "&"
      [] c = "%3D" -> "="
      [] c = "%2B" -> "+"
      [] c = "%25" -> "%"
      [] c = "%3F" -> "?"
      [] OTHER -> c

UnquotePlus(s) == [i \in 1..Len(s) |-> UnquoteChar(s[i])]

Has(s, c) == \E i \in 1..Len(s) : s[i] = c
FirstIndex(s, c) == CHOOSE i \in 1..Len(s) : s[i] = c /\ \A j \in 1..(i - 1) : s[j] # c
Before(s, c) == IF Has(s, c) THEN SubSeq(s, 1, FirstIndex(s, c) - 1) ELSE s
After(s, c) == IF Has(s, c) THEN SubSeq(s, FirstIndex(s, c) + 1, Len(s)) ELSE <<>>

RECURSIVE SplitOn(_, _)
SplitOn(s, c) ==
    IF Has(s, c) THEN <<Before(s, c)>> \o SplitOn(After(s, c), c) ELSE <<s>>

\* the value of parameter key in url, None when absent or blank
QueryParam(url, key) ==
    LET pairs == SplitOn(After(url, "?"), "&")
        hits == {i \in 1..Len(pairs) :
                    /\ UnquotePlus(Before(pairs[i], "=")) = key
                    /\ After(pairs[i], "=") # <<>>}
    IN  IF hits = {} THEN None
        ELSE LET i == CHOOSE i \in hits : \A j \in hits : i <= j
             IN  Some(UnquotePlus(After(pairs[i], "=")))

---------------------------------------------------------------------------
(* Claims *)

LastRequest == requests[Len(requests)]

\* C1: a callback that carries a code and whose state parameter is not the
\* expected anti-forgery token (or is absent) leaves token_data and
\* user_profile as they were and sends nothing to the token endpoint.
C1_StateMismatchRejected ==
    [][(pc = "callback" /\ query_params.code # None
            /\ query_params.state # Some(ExpectedState))
        => (/\ token_data' = token_data
            /\ user_profile' = user_profile
            /\ requests' = requests
            /\ token_posts' = token_posts)]_vars

\* C1 witness: a callback with a code and a foreign state was rejected
C1_Witness ==
    /\ pc = "sidebar"
    /\ query_params.code # None
    /\ query_params.state = Some(<<"evil">>)
    /\ "Invalid state parameter. Possible CSRF attack." \in errors
    /\ token_data = None /\ token_posts = 0

\* C2: when a script run has ended, token_data is set if and only if
\* user_profile is set (the session is never partially authenticated).
C2_NeverPartiallyAuthenticated ==
    pc = "idle" => ((token_data # None) <=> (user_profile # None))

\* C3: the authorization code of the session is posted to the token
\* endpoint at most once, over all script runs.
C3_CodeExchangedAtMostOnce == token_posts <= 1

\* C4: a token exchange answered with HTTP 400 gives no token record (both
\* classes return None) and leaves token_data and user_profile as they were.
C4_Http400LeavesSession ==
    [][(pc = "callback" /\ Len(requests') > Len(requests)
            /\ requests'[Len(requests) + 1].kind = "token"
            /\ requests'[Len(requests) + 1].status = 400)
        => (/\ token_data' = token_data
            /\ user_profile' = user_profile
            /\ pc' = "sidebar"
            /\ \A tr \in TokenResponses : tr.status = 400 =>
                /\ App_exchange_code_for_token(linkedin_auth, query_params.code[1],
                        tr, now).result = Failed("Failed to exchange code for token")
                /\ Tool_exchange_code_for_token(tool_auth, query_params.code[1],
                        tr, now).result.value = None)]_vars

\* C4 witness: the token endpoint answered the callback's exchange with 400
C4_Witness ==
    /\ pc = "sidebar"
    /\ requests # <<>>
    /\ LastRequest.kind = "token" /\ LastRequest.status = 400
    /\ token_data = None /\ user_profile = None

\* C5: is_token_valid is false without a token or without expires_at, and
\* otherwise true exactly when now + 5 minutes < expires_at, in the class of
\* the page as in the class of the tools module.
C5_IsTokenValidBuffer ==
    call.op = "is_token_valid" =>
        call.result = (/\ call.token_data # None
                       /\ call.token_data[1].expires_at # None
                       /\ call.at + BufferMinutes < call.token_data[1].expires_at[1])

\* C6: a script run shows the authenticated view only if the stored token
\* satisfies now + 5 minutes < expires_at at the time of the run.
C6_AuthenticatedViewNeedsBuffer ==
    [][(pc = "main" /\ shown' = "app")
        => (/\ token_data # None
            /\ token_data[1].expires_at # None
            /\ now + BufferMinutes < token_data[1].expires_at[1])]_vars

\* the LinkedInAuth object the last operation was applied to (every change
\* of an object replaces call)
CallAuth == AuthOf(call.cls)

\* C7: with a non-empty client_id, get_auth_url returns a URL whose
\* redirect_uri parameter decodes to the configured redirect URI and whose
\* state parameter is present and not empty.
C7_AuthUrlRedirectAndState ==
    (call.op = "get_auth_url" /\ Truthy(CallAuth.client_id)) =>
        /\ call.result.value # None
        /\ QueryParam(call.result.value[1], <<"redirect_uri">>)
                = Some(CallAuth.redirect_uri)
        /\ QueryParam(call.result.value[1], <<"state">>) # None

\* C8: for each LinkedInAuth object, the redirect URI in its authorization
\* URL and the redirect URI in its token request are the same string, the
\* one the object was constructed with; no operation changes it.
C8_RedirectUriUnchanged ==
    \A cls \in Classes :
        LET sent == wire[cls] IN
        /\ sent.authorization # None =>
            QueryParam(sent.authorization[1], <<"redirect_uri">>)
                = Some(AuthOf(cls).redirect_uri)
        /\ sent.token # None =>
            sent.token[1].redirect_uri = Some(AuthOf(cls).redirect_uri)
        /\ (sent.authorization # None /\ sent.token # None) =>
            QueryParam(sent.authorization[1], <<"redirect_uri">>)
                = sent.token[1].redirect_uri

\* C8 witness: the page's object built an authorization URL, the keys were
\* saved, and it then sent a token request
C8_Witness ==
    /\ wire["app"].authorization # None
    /\ wire["app"].token # None
    /\ QueryParam(wire["app"].authorization[1], <<"client_id">>) = Some(<<"cid">>)
    /\ wire["app"].token[1].client_id = Some(<<"cid2">>)
    /\ wire["tool"].authorization # None
    /\ wire["tool"].token # None

\* C9: without a client_id (absent or empty), get_auth_url fails with an
\* error and returns no URL.
C9_AuthUrlNeedsClientId ==
    (call.op = "get_auth_url" /\ ~Truthy(CallAuth.client_id)) =>
        /\ call.result.raised # ""
        /\ call.result.value = None

\* C10: no request goes to the provider while the client identifier or the
\* client secret is missing.
C10_NoRequestWithoutCredentials ==
    /\ \A i \in 1..Len(requests) :
        requests[i].kind = "token" =>
            Truthy(requests[i].client_id) /\ Truthy(requests[i].client_secret)
    /\ (pc = "sidebar" /\ requests # <<>>) =>
            Truthy(linkedin_auth.client_id) /\ Truthy(linkedin_auth.client_secret)

\* C11: a successful token exchange returns a record whose expires_at is
\* the time of the call plus the response's expires_in, or plus 3600 s
\* (DefaultExpiresIn minutes) when the response has none, and whose
\* access_token is the response's.
C11_ExpiresAtFromExpiresIn ==
    (call.op = "exchange_code_for_token" /\ call.result.value # None) =>
        /\ call.result.value[1].expires_at
            = Some(call.at + (IF call.response.body.expires_in = None
                              THEN DefaultExpiresIn
                              ELSE call.response.body.expires_in[1]))
        /\ Some(call.result.value[1].access_token)
            = call.response.body.access_token

\* C11 witness: at a time after 0 the page's class exchanged a code for a
\* response without expires_in
C11_Witness ==
    /\ call.op = "exchange_code_for_token" /\ call.cls = "app"
    /\ call.at > 0
    /\ call.result.value # None
    /\ call.response.body.expires_in = None
    /\ call.result.value[1].expires_at = Some(call.at + 60)

\* C12: a stored token record is replaced only by an authentication that
\* went to the provider; while it is stored, once invalid it stays invalid;
\* refresh_token_if_needed gives back its argument when valid and None
\* otherwise.
C12_NoRenewal ==
    [][/\ (token_data # None /\ token_data' # None /\ token_data' # token_data)
            => Len(requests') > Len(requests)
       /\ (token_data # None /\ token_data' = token_data
                /\ ~Authenticated(linkedin_auth, token_data, now))
            => ~Authenticated(linkedin_auth', token_data', now')
       /\ Tool_refresh_token_if_needed(token_data', now')
            = (IF Tool_is_token_valid(token_data', now') THEN token_data' ELSE None)
      ]_vars

\* C12 witness: a token that was issued for 3 minutes is still stored after
\* its expiry and the page shows the login view
C12_Witness ==
    /\ pc = "idle" /\ shown = "login"
    /\ token_data # None
    /\ token_data[1].expires_at # None
    /\ token_data[1].expires_at[1] <= now

\* C13: between two user actions the page sends at most one HTTP request.
C13_AtMostOneRequestPerAction == Len(requests) <= 1

\* C14: a 2xx token response without access_token gives an error result
\* (no record, nothing raised), and a 200 profile response without sub
\* gives no profile record.
C14_MissingRequiredFieldIsAnError ==
    /\ (/\ call.op = "exchange_code_for_token"
        /\ call.request # None
        /\ call.response.transport_ok /\ call.response.status = 200
        /\ call.response.json_ok
        /\ call.response.body.access_token = None)
        => (call.result.raised = "" /\ call.result.value = None)
    /\ (/\ call.op = "get_user_profile"
        /\ call.response.transport_ok /\ call.response.status = 200
        /\ call.response.body.sub = None)
        => (call.result.raised = "" /\ call.result.value = None)

\* C15: from a userinfo answer with sub, given_name, family_name and email,
\* get_user_profile and the helpers give id = sub, display name = the
\* stripped "given family", e-mail = email.
C15_ProfileFromUserInfo ==
    (/\ call.op = "get_user_profile"
     /\ call.response.transport_ok /\ call.response.status = 200
     /\ call.response.body.sub # None
     /\ call.response.body.given_name # None
     /\ call.response.body.family_name # None
     /\ call.response.body.email # None)
    => /\ call.result.raised = "" /\ call.result.value # None
       /\ call.result.value[1].profile.id = call.response.body.sub
       /\ call.extracted.display_name
            = Ok(JStr(Strip(call.response.body.given_name[1] \o <<" ">>
                            \o call.response.body.family_name[1])))
       /\ call.extracted.email = Ok(JStr(call.response.body.email[1]))

\* C15 witness: the tools class formatted an answer whose family name is
\* empty, and the display name is the given name alone
C15_Witness ==
    /\ call.op = "get_user_profile" /\ call.cls = "tool"
    /\ call.response.status = 200
    /\ call.response.body.sub = Some(<<"id1">>)
    /\ call.response.body.given_name = Some(<<"Ada">>)
    /\ call.response.body.family_name = Some(EmptyStr)
    /\ call.response.body.email # None
    /\ call.extracted.display_name = Ok(JStr(<<"Ada">>))

\* C16: a legacy-shaped profile and a userinfo answer with the same first
\* name, last name and e-mail give the same display name and e-mail.
C16_ShapeInvariance ==
    call.op = "shapes" =>
        /\ call.result.value # None
        /\ call.legacy_display_name.exc = ""
        /\ call.legacy_display_name = call.modern.display_name
        /\ call.legacy_email.exc = ""
        /\ call.legacy_email = call.modern.email

\* C16 witness: both shapes carried Ada Lovelace and her address, the
\* legacy one under two locales
C16_Witness ==
    /\ call.op = "shapes" /\ call.locales = 2
    /\ call.first = <<"Ada">> /\ call.last = <<"Lovelace">>
    /\ call.legacy_display_name = Ok(JStr(<<"Ada", " ", "Lovelace">>))
    /\ call.modern.email = Ok(JStr(<<"a", "@", "x.com">>))

\* C17: a 200 profile response without picture or email still gives a
\* record and nothing is raised; a missing picture reads back as None, a
\* missing e-mail reads back as None or empty and is not shown as present.
C17_OptionalFieldsAbsent ==
    (/\ call.op = "get_user_profile"
     /\ call.response.transport_ok /\ call.response.status = 200
     /\ (call.response.body.picture = None \/ call.response.body.email = None))
    => /\ call.result.raised = "" /\ call.result.value # None
       /\ call.extracted.picture.exc = "" /\ call.extracted.email.exc = ""
       /\ call.response.body.picture = None => call.extracted.picture.val = JNull
       /\ call.response.body.email = None =>
            /\ call.extracted.email.val \in {JNull, JStr(EmptyStr)}
            /\ ~call.extracted.email_shown

\* C18: on a dictionary whose chain of keys is broken anywhere (missing
\* key, null, empty dict, empty list, a value that is no dict) no helper
\* raises; the display name is then "LinkedIn User", e-mail and picture None.
C18_HelpersNeverRaise ==
    call.op = "extract" =>
        /\ call.result.exc = ""
        /\ call.depth < Len(HelperChain(call.helper)) =>
            call.result.val = (IF call.helper = "get_user_display_name"
                               THEN JStr(<<"LinkedIn", " ", "User">>) ELSE JNull)

\* C19: Logout sets token_data and user_profile to None together; a stored
\* profile is the one fetched with the stored token; whenever a token
\* record is stored the rendered page offers Logout.
C19_LogoutAndReauthentication ==
    /\ []((pc = "idle" /\ token_data # None) =>
            /\ "logout" \in buttons
            /\ user_profile # None =>
                user_profile[1].profile.id
                    = Some(<<"id-">> \o token_data[1].access_token))
    /\ [][(pc = "sidebar" /\ button = "logout" /\ pc' = "callback")
            => (token_data' = None /\ user_profile' = None)]_vars

\* C20: the state parameter of the URL that get_auth_url builds is the one
\* handle_oauth_callback accepts, so the callback that echoes it is not
\* rejected.
C20_StateRoundTrip ==
    (call.op = "get_auth_url" /\ call.result.value # None) =>
        /\ QueryParam(call.result.value[1], <<"state">>) = Some(ExpectedState)
        /\ StateValid([code |-> Some(<<"code1">>),
                       state |-> QueryParam(call.result.value[1], <<"state">>),
                       error |-> None])

\* the create-post requests of the last post_to_linkedin call
PostsSent == SelectSeq(call.sent, LAMBDA r : r.kind = "ugcPosts")

\* the identifier the lookups of the last call produced, None when none
PersonIdentifier ==
    IF ~call.userinfo.transport_ok THEN None
    ELSE IF call.userinfo.status = 200
    THEN (IF call.userinfo.json_ok THEN call.userinfo.id ELSE None)
    ELSE IF call.people.transport_ok /\ call.people.status = 200
            /\ call.people.json_ok
    THEN call.people.id
    ELSE None

\* what both readings of C21 share: the create-post request is sent at most
\* once, last, only with a non-empty identifier a lookup produced and with
\* the author made of it; nothing is raised; True is returned exactly for a
\* 201 answer to the create-post request, an error string otherwise.
PostOnlyWithIdentifier ==
    /\ Len(PostsSent) <= 1
    /\ PostsSent # <<>> =>
        /\ Truthy(PersonIdentifier)
        /\ call.sent[Len(call.sent)] = PostsSent[1]
        /\ PostsSent[1].author = Some(PersonUrn(PersonIdentifier[1]))
        /\ PostsSent[1].text = Some(call.content)
        /\ PostsSent[1].access_token = call.access_token
    /\ call.result.raised = ""
    /\ call.result.ok <=> (PostsSent # <<>> /\ PostsSent[1].status = 201)
    /\ ~call.result.ok => call.result.error # ""
    /\ (call.shown = "Posted successfully to LinkedIn!") <=> call.result.ok

\* C21 as stated: post_to_linkedin posts only with a non-empty identifier
\* from a lookup, returns True exactly for a 201 create-post answer, and in
\* every other outcome returns an error string without raising and without
\* having sent the create-post request.
C21_PostToLinkedIn ==
    call.op = "post_to_linkedin" =>
        /\ PostOnlyWithIdentifier
        /\ ~call.result.ok => PostsSent = <<>>

\* C21 amended: as above, but the create-post request is not sent exactly
\* when no lookup produced a non-empty identifier; a non-201 answer or an
\* exception on the create-post request gives an error string after the
\* request was sent.
C21_PostToLinkedInAmended ==
    call.op = "post_to_linkedin" =>
        /\ PostOnlyWithIdentifier
        /\ PostsSent = <<>> <=> ~Truthy(PersonIdentifier)

\* C21 witness: userinfo was answered 401, the people lookup gave id2, and
\* the create-post request with author urn:li:person:id2 was answered 400
C21_Witness ==
    /\ call.op = "post_to_linkedin"
    /\ call.userinfo.status = 401
    /\ Len(call.sent) = 3
    /\ call.sent[3].author = Some(PersonUrn(<<"id2">>))
    /\ call.sent[3].status = 400
    /\ ~call.result.ok /\ call.result.error = "LinkedIn API error"

\* the step in which the "Authenticate with Access Token" click is handled
ManualAuthStep ==
    /\ pc = "main" /\ button = "manual_auth"
    /\ ~Authenticated(linkedin_auth, token_data, now)

\* the step sent one profile request that was answered 200
ProfileFetched ==
    /\ Len(requests') = Len(requests) + 1
    /\ LastRequest'.kind = "profile"
    /\ LastRequest'.status = 200

\* C22: handling the manual-token click either leaves token_data and
\* user_profile as they were, or writes both: the token record with the
\* pasted non-empty token and expires_at = now + 1 hour, the profile the one
\* fetched with that token; both are written exactly when the step's
\* profile request was answered 200.
C22_ManualTokenAllOrNothing ==
    [][ManualAuthStep =>
        IF ProfileFetched
        THEN /\ token_data' # None /\ user_profile' # None
             /\ token_data'[1].access_token # EmptyStr
             /\ Some(token_data'[1].access_token) = LastRequest'.access_token
             /\ token_data'[1].expires_at = Some(now + ManualTokenLifetime)
             /\ user_profile'[1].profile.id
                    = Some(<<"id-">> \o token_data'[1].access_token)
        ELSE token_data' = token_data /\ user_profile' = user_profile
      ]_vars

\* C22 witness: after the issued token expired, a pasted token was accepted
\* at a time after 0 and stored with its profile
C22_Witness ==
    /\ pc = "callback" /\ now > 0
    /\ token_data # None /\ user_profile # None
    /\ token_data[1].access_token = <<"tokM">>
    /\ token_data[1].expires_at = Some(now + 60)
    /\ user_profile[1].profile.id = Some(<<"id-", "tokM">>)
    /\ requests # <<>> /\ LastRequest.kind = "profile"

====
